---------------------------- MODULE Spec2Model ----------------------------
(***************************************************************************)
(* A model of src/main.py, the catalog-enrichment and SKU-resolution       *)
(* backend: text normalisation, image selection, product enrichment, the   *)
(* list-all variant matcher (twice in the source: the helper               *)
(* _listar_opcoes_sku_imagem and the loop of the /md/sku-image-options     *)
(* handler), the best-single-match resolver escolher_sku and the two       *)
(* entry points that fetch the product batch from the catalog feed.        *)
(*                                                                         *)
(* Python values.  A dictionary field or an Optional value is one of       *)
(*     Missing    the key is not in the dictionary                         *)
(*     None       the key is there with the value null / the value None    *)
(*     Val(x)     the value x                                              *)
(* A str is the sequence of its characters; a list is a sequence.  A       *)
(* character is a one-token string; the accented letters and the combining *)
(* marks the normaliser tells apart are written with an ASCII token:       *)
(*     "a'"  U+00E1    "A'"  U+00C1    "'"  U+0301 COMBINING ACUTE ACCENT  *)
(*     "o^"  U+00F4    "O^"  U+00D4    "^"  U+0302 COMBINING CIRCUMFLEX    *)
(* A URL is a str of one token.                                            *)
(***************************************************************************)
EXTENDS Integers, Sequences, FiniteSets, TLC

VARIABLES
    pc,        \* "ready": a call is about to be made; "done": it has returned
    op,        \* the operation that was called ("" before the call)
    texto,     \* the argument of normalizar_texto
    item,      \* the argument of escolher_melhor_imagem
    prod,      \* the argument of enriquecer_produto
    fetch,     \* what the catalog feed does with the request
    produtos,  \* the product batch the feed answers with (resp.json())
    codigo,    \* query parameter: the base code
    banho,     \* query parameter: the plating filter (Optional)
    pedra,     \* query parameter: the stone filter (Optional)
    ret        \* what the call returned, raised or answered

vars == <<pc, op, texto, item, prod, fetch, produtos, codigo, banho, pedra, ret>>

----------------------------------------------------------------------------
(* Bounds of the model *)

\* longest string handed to normalizar_texto
MaxLen == 3
\* longest image list handed to escolher_melhor_imagem
MaxImages == 2
\* longest product batch
MaxProdutos == 2
\* prices run over 0, 10, ..., 10 * MaxPreco
MaxPreco == 12

----------------------------------------------------------------------------
(* Python values *)

Missing == [k |-> "missing"]
None == [k |-> "none"]
Val(x) == [k |-> "val", v |-> x]

\* d.get(key): None when the key is missing
Get(f) == IF f.k = "missing" THEN None ELSE f

\* d.get(key, default)
GetDefault(f, default) == IF f.k = "missing" THEN Val(default) ELSE f

\* truth value of an Optional str or list: None and the empty one are false
Truthy(x) == x.k = "val" /\ Len(x.v) > 0

\* x or y
Or(x, y) == IF Truthy(x) THEN x ELSE y

\* name = v; F(name): v is evaluated once and its value handed to F
Let1(v, F(_)) == CHOOSE r \in {F(x) : x \in {v}} : TRUE

\* the sequences over S of length at most n
SeqUpTo(S, n) == UNION {[1..m -> S] : m \in 0..n}

----------------------------------------------------------------------------
(* str methods and unicodedata *)

\* str.strip() with no argument removes the white space at both ends
IsSpace(c) == c = " "

RECURSIVE LStrip(_)
LStrip(s) ==
    IF s = <<>> THEN <<>>
    ELSE IF IsSpace(Head(s)) THEN LStrip(Tail(s)) ELSE s

RECURSIVE RStrip(_)
RStrip(s) ==
    IF s = <<>> THEN <<>>
    ELSE IF IsSpace(s[Len(s)]) THEN RStrip(SubSeq(s, 1, Len(s) - 1)) ELSE s

Strip(s) == RStrip(LStrip(s))

LowerLetters == <<"a", "d", "g", "i", "m", "n", "o", "r", "t", "u", "x", "a'", "o^">>
UpperLetters == <<"A", "D", "G", "I", "M", "N", "O", "R", "T", "U", "X", "A'", "O^">>

\* str.upper(), one character
UpperChar(c) ==
    IF \E i \in DOMAIN LowerLetters : LowerLetters[i] = c
    THEN UpperLetters[CHOOSE i \in DOMAIN LowerLetters : LowerLetters[i] = c]
    ELSE c

Upper(s) == [i \in DOMAIN s |-> UpperChar(s[i])]

\* unicodedata.normalize("NFD", .), one character: an accented letter becomes
\* its base letter followed by the combining mark
DecomposeChar(c) ==
    CASE c = "a'" -> <<"a", "'">>
      [] c = "A'" -> <<"A", "'">>
      [] c = "o^" -> <<"o", "^">>
      [] c = "O^" -> <<"O", "^">>
      [] OTHER -> <<c>>

RECURSIVE NFD(_)
NFD(s) == IF s = <<>> THEN <<>> ELSE DecomposeChar(Head(s)) \o NFD(Tail(s))

\* unicodedata.category(ch) == "Mn"
IsMn(c) == c \in {"'", "^"}

DropMn(s) == SelectSeq(s, LAMBDA c : ~IsMn(c))

\* normalizar_texto(s), s an Optional str
normalizar_texto(s) ==
    IF ~Truthy(s) THEN <<>>
    ELSE DropMn(NFD(Upper(Strip(s.v))))

\* s.startswith(prefix)
RECURSIVE StartsWith(_, _)
StartsWith(s, prefix) ==
    IF prefix = <<>> THEN TRUE
    ELSE IF s = <<>> THEN FALSE
    ELSE Head(s) = Head(prefix) /\ StartsWith(Tail(s), Tail(prefix))

\* "sub in s"
RECURSIVE Contains(_, _)
Contains(s, sub) ==
    IF StartsWith(s, sub) THEN TRUE
    ELSE IF s = <<>> THEN FALSE
    ELSE Contains(Tail(s), sub)

----------------------------------------------------------------------------
(* escolher_melhor_imagem *)

\* the first loop: the URL of the first image with no label, or "no such image"
RECURSIVE PrimeiraSemLabel(_)
PrimeiraSemLabel(imagens) ==
    IF imagens = <<>> THEN [found |-> FALSE]
    ELSE LET img == Head(imagens)
             label == Strip(Or(Get(img.imageLabel), Val(<<>>)).v)
         IN  IF label = <<>>
             THEN [found |-> TRUE, url |-> Get(img.imageUrl)]
             ELSE PrimeiraSemLabel(Tail(imagens))

\* a fallback the code does not have: the last image
ImagemFallbackUltima(imagens) == Get(imagens[Len(imagens)].imageUrl)

\* the fallback when every image has a label: imagens[0].get("imageUrl")
ImagemFallback(imagens) == Get(imagens[1].imageUrl)

escolher_melhor_imagem(it) ==
    LET imagens == Or(Get(it.images), Val(<<>>)).v
    IN  IF imagens = <<>> THEN None
        ELSE LET r == PrimeiraSemLabel(imagens)
             IN  IF r.found THEN r.url ELSE ImagemFallback(imagens)

----------------------------------------------------------------------------
(* Python float arithmetic: IEEE-754 binary64, round to nearest, ties to    *)
(* even.  A number is s * m * 2^e, the natural number m written in base     *)
(* 2^15, least significant digit first, with no leading zero digit, so that *)
(* no width is lost; m is odd, or the number is zero.                       *)

\* the bits of the significand of a float
Precision == 53

LimbBits == 15
Base == 2^LimbBits

Abs(n) == IF n < 0 THEN -n ELSE n
Sign(n) == IF n < 0 THEN -1 ELSE 1

RECURSIVE BigOfNat(_)
BigOfNat(n) == IF n = 0 THEN <<>> ELSE <<n % Base>> \o BigOfNat(n \div Base)

RECURSIVE BigNorm(_)
BigNorm(a) ==
    IF a = <<>> THEN <<>>
    ELSE IF a[Len(a)] = 0 THEN BigNorm(SubSeq(a, 1, Len(a) - 1)) ELSE a

Limb(a, i) == IF i <= Len(a) THEN a[i] ELSE 0

RECURSIVE AddFrom(_, _, _, _)
AddFrom(a, b, i, carry) ==
    IF i > Len(a) /\ i > Len(b) THEN (IF carry = 0 THEN <<>> ELSE <<carry>>)
    ELSE LET t == Limb(a, i) + Limb(b, i) + carry
         IN  <<t % Base>> \o AddFrom(a, b, i + 1, t \div Base)

BigAdd(a, b) == BigNorm(AddFrom(a, b, 1, 0))

\* a - b for a >= b
RECURSIVE SubFrom(_, _, _, _)
SubFrom(a, b, i, borrow) ==
    IF i > Len(a) THEN <<>>
    ELSE LET t == Limb(a, i) - Limb(b, i) - borrow
         IN  <<(t + Base) % Base>> \o SubFrom(a, b, i + 1, IF t < 0 THEN 1 ELSE 0)

BigSub(a, b) == BigNorm(SubFrom(a, b, 1, 0))

\* a * n for a natural number n <= Base
RECURSIVE MulFrom(_, _, _, _)
MulFrom(a, n, i, carry) ==
    IF i > Len(a) THEN BigOfNat(carry)
    ELSE LET t == a[i] * n + carry
         IN  <<t % Base>> \o MulFrom(a, n, i + 1, t \div Base)

BigMul(a, n) == BigNorm(MulFrom(a, n, 1, 0))

\* a \div d for a natural number 0 < d <= Base
RECURSIVE DivFrom(_, _, _, _)
DivFrom(a, d, i, rem) ==
    IF i = 0 THEN <<>>
    ELSE LET cur == rem * Base + a[i]
         IN  Append(DivFrom(a, d, i - 1, cur % d), cur \div d)

BigDiv(a, d) == BigNorm(DivFrom(a, d, Len(a), 0))

\* -1, 0 or 1 as a < b, a = b or a > b
RECURSIVE CmpFrom(_, _, _)
CmpFrom(a, b, i) ==
    IF i = 0 THEN 0
    ELSE IF a[i] # b[i] THEN (IF a[i] < b[i] THEN -1 ELSE 1)
    ELSE CmpFrom(a, b, i - 1)

BigCmp(a, b) ==
    IF Len(a) # Len(b) THEN (IF Len(a) < Len(b) THEN -1 ELSE 1)
    ELSE CmpFrom(a, b, Len(a))

\* a * 2^k and a \div 2^k
BigShl(a, k) ==
    IF a = <<>> THEN <<>>
    ELSE BigMul([i \in 1..(k \div LimbBits) |-> 0] \o a, 2^(k % LimbBits))

BigShr(a, k) ==
    IF k \div LimbBits >= Len(a) THEN <<>>
    ELSE BigDiv(SubSeq(a, (k \div LimbBits) + 1, Len(a)), 2^(k % LimbBits))

\* the number of bits of a, and the number of 0 bits a ends with (a # 0)
BitLength(a) ==
    IF a = <<>> THEN 0
    ELSE LimbBits * (Len(a) - 1)
         + (CHOOSE n \in 1..LimbBits : 2^(n - 1) <= a[Len(a)] /\ a[Len(a)] < 2^n)

TrailingZeros(a) ==
    LET i == CHOOSE j \in DOMAIN a : a[j] # 0 /\ \A h \in 1..(j - 1) : a[h] = 0
    IN  LimbBits * (i - 1)
        + (CHOOSE n \in 0..(LimbBits - 1) : a[i] % 2^n = 0 /\ a[i] % 2^(n + 1) # 0)

BigOne == <<1>>

\* the number s * m * 2^e in its one representation
Dyadic(s, m, e) ==
    IF m = <<>> THEN [s |-> 1, m |-> <<>>, e |-> 0]
    ELSE [s |-> s, m |-> BigShr(m, TrailingZeros(m)), e |-> e + TrailingZeros(m)]

\* float(n) for an int of a few digits
FloatOfInt(n) == Dyadic(Sign(n), BigOfNat(Abs(n)), 0)

DNeg(x) == IF x.m = <<>> THEN x ELSE [x EXCEPT !.s = -x.s]
DAbs(x) == [x EXCEPT !.s = 1]

\* x + y, exactly
DAdd(x, y) ==
    LET e == IF x.e < y.e THEN x.e ELSE y.e
        a == BigShl(x.m, x.e - e)
        b == BigShl(y.m, y.e - e)
    IN  IF x.s = y.s THEN Dyadic(x.s, BigAdd(a, b), e)
        ELSE IF BigCmp(a, b) >= 0 THEN Dyadic(x.s, BigSub(a, b), e)
        ELSE Dyadic(y.s, BigSub(b, a), e)

DSub(x, y) == DAdd(x, DNeg(y))

\* x * n, exactly, for a small int n
DMul(x, n) == Dyadic(x.s * Sign(n), BigMul(x.m, Abs(n)), x.e)

\* x <= y
DLeq(x, y) == LET d == DSub(x, y) IN d.m = <<>> \/ d.s = -1

\* the float nearest to x, ties to even
Round(x) ==
    LET n == BitLength(x.m)
        d == n - Precision
        q == BigShr(x.m, d)
        rem == BigSub(x.m, BigShl(q, d))
        c == BigCmp(rem, BigShl(BigOne, d - 1))
        up == c > 0 \/ (c = 0 /\ q[1] % 2 = 1)
    IN  IF n <= Precision THEN x
        ELSE Dyadic(x.s, IF up THEN BigAdd(q, BigOne) ELSE q, x.e + d)

\* n digits of r / l after the point (r < l) and the remainder left
RECURSIVE FracLimbs(_, _, _)
FracLimbs(r, l, n) ==
    IF n = 0 THEN [limbs |-> <<>>, rem |-> r]
    ELSE LET rest == FracLimbs((r * Base) % l, l, n - 1)
         IN  [limbs |-> Append(rest.limbs, (r * Base) \div l), rem |-> rest.rem]

\* p / l for ints p and l # 0 (Abs(l) < 2^16 and Abs(l / p) < 2^30): the
\* quotient, correctly rounded.  The quotient is cut after 90 bits, and one
\* more bit says whether anything was cut off.
TrueDiv(p, l) ==
    LET n == 6
        f == FracLimbs(Abs(p) % Abs(l), Abs(l), n)
        q == BigNorm(f.limbs \o BigOfNat(Abs(p) \div Abs(l)))
        cut == BigAdd(BigMul(q, 2), IF f.rem = 0 THEN <<>> ELSE BigOne)
    IN  Round(Dyadic(Sign(p) * Sign(l), cut, -(n * LimbBits + 1)))

\* float - float and float * float
FloatSub(x, y) == Round(DSub(x, y))
FloatMulInt(x, n) == Round(DMul(x, n))

\* a Python number: an int or a float
PyInt(n) == [t |-> "int", n |-> n]
PyFloat(x) == [t |-> "float", f |-> x]
\* a Python str where a number is expected
PyStr(s) == [t |-> "str", s |-> s]

----------------------------------------------------------------------------
(* enriquecer_produto *)

\* truth value of an Optional price: None, 0 and "" are false
TruthyNum(x) ==
    x.k = "val" /\ (IF x.v.t = "int" THEN x.v.n # 0 ELSE Len(x.v.s) > 0)

\* (1 - (preco / preco_lista)) * 100
FormulaDesconto(p, l) == FloatMulInt(FloatSub(FloatOfInt(1), TrueDiv(p, l)), 100)

\* the try statement's body as it would be without "and preco_lista > 0"
DescontoSemGuarda(preco, preco_lista) ==
    IF preco.k = "none" \/ ~TruthyNum(preco_lista)
    THEN [exc |-> FALSE, val |-> None]
    ELSE IF preco_lista.v.t # "int" \/ preco.v.t # "int" THEN [exc |-> TRUE, val |-> None]
    ELSE [exc |-> FALSE,
          val |-> Val(PyFloat(FormulaDesconto(preco.v.n, preco_lista.v.n)))]

\* the body of the try statement: the value percentual_desconto has after it
\* and whether the body raised (a str where a number is needed: TypeError)
Desconto(preco, preco_lista) ==
    IF preco.k = "none" \/ ~TruthyNum(preco_lista)
    THEN [exc |-> FALSE, val |-> None]
    ELSE IF preco_lista.v.t # "int" THEN [exc |-> TRUE, val |-> None]
    ELSE IF ~(preco_lista.v.n > 0) THEN [exc |-> FALSE, val |-> None]
    ELSE IF preco.v.t # "int" THEN [exc |-> TRUE, val |-> None]
    ELSE [exc |-> FALSE,
          val |-> Val(PyFloat(FormulaDesconto(preco.v.n, preco_lista.v.n)))]

\* try: ... except Exception: percentual_desconto = None
PercentualDesconto(preco, preco_lista) ==
    LET r == Desconto(preco, preco_lista)
    IN  [raised |-> FALSE, val |-> IF r.exc THEN None ELSE r.val]

EmptySeller == [commertialOffer |-> Missing]
EmptyOffer == [Price |-> Missing, ListPrice |-> Missing, PriceWithoutDiscount |-> Missing]

\* the fields enriquecer_produto derives: [raised, campos].  The record field
\* Colecoes is the key "Coleções" of the product
Resumo(p) ==
    LET colecoes == Get(p.Colecoes)
        colecao == IF Truthy(colecoes) THEN Val(colecoes.v[1]) ELSE None
        items == Or(Get(p.items), Val(<<>>)).v
        temItem == items # <<>>
        item0 == items[1]
        imagens == IF temItem THEN Or(Get(item0.images), Val(<<>>)).v ELSE <<>>
        imagem == IF imagens # <<>> THEN Get(imagens[1].imageUrl) ELSE None
        sellers == IF temItem THEN Or(Get(item0.sellers), Val(<<>>)).v ELSE <<>>
        temSeller == sellers # <<>>
        seller == IF sellers[1].k = "val" THEN sellers[1].v ELSE EmptySeller
        co == Get(seller.commertialOffer)
        offer == IF co.k = "val" THEN co.v ELSE EmptyOffer
        preco == IF temSeller THEN Get(offer.Price) ELSE None
        preco_lista == IF temSeller THEN Get(offer.ListPrice) ELSE None
        preco_sem_desc == IF temSeller THEN Get(offer.PriceWithoutDiscount) ELSE None
        pd == IF temSeller THEN PercentualDesconto(preco, preco_lista)
              ELSE [raised |-> FALSE, val |-> None]
    IN  [raised |-> pd.raised,
         campos |-> [colecao_principal |-> colecao,
                     imagem_principal |-> imagem,
                     preco |-> preco,
                     preco_lista |-> preco_lista,
                     preco_sem_desconto |-> preco_sem_desc,
                     percentual_desconto |-> pd.val]]

\* enriquecer_produto(prod): the product with the derived fields attached,
\* and the same fields once more under md_resumo
enriquecer_produto(p) ==
    LET r == Resumo(p)
    IN  IF r.raised THEN [raised |-> TRUE]
        ELSE [raised |-> FALSE,
              value |-> [md_resumo |-> r.campos] @@ r.campos @@ p]

----------------------------------------------------------------------------
(* The list-all matcher, first copy: _listar_opcoes_sku_imagem *)

\* "." in s
HasDot(s) == \E i \in DOMAIN s : s[i] = "."

\* [normalizar_texto(x) for x in xs]
NormAll(xs) == [i \in DOMAIN xs |-> normalizar_texto(Val(xs[i]))]

\* normalizar_texto(f) if f else ""
NormFiltro(f) == IF Truthy(f) THEN normalizar_texto(f) ELSE <<>>

\* prod.get("productReference") or prod.get("productReferenceCode") or ""
ProdRef(p) == Or(Or(Get(p.productReference), Get(p.productReferenceCode)), Val(<<>>))

\* xs[-1] if xs else None, which the code does not use
UltimoOuNone(xs) == IF xs # <<>> THEN Val(xs[Len(xs)]) ELSE None

\* xs[0] if xs else None
PrimeiroOuNone(xs) == IF xs # <<>> THEN Val(xs[1]) ELSE None

\* a code filter with the prefix test only
CodigoSoPrefixo(codigo_norm, prod_ref_norm) == StartsWith(prod_ref_norm, codigo_norm)

\* the code filter of lines 86-91: TRUE when the product is not skipped
CodigoPassa(codigo_norm, prod_ref_norm) ==
    IF HasDot(codigo_norm) THEN prod_ref_norm = codigo_norm
    ELSE StartsWith(prod_ref_norm, codigo_norm)

\* the two-directional test of escolher_sku's stone filter in its place
FiltroBidirecional(filtro_norm, tags_norm) ==
    filtro_norm # <<>> =>
        \E i \in DOMAIN tags_norm :
            Contains(tags_norm[i], filtro_norm) \/ Contains(filtro_norm, tags_norm[i])

\* the filter of lines 103-105 and 107-109: TRUE when the item is not skipped
FiltroPassa(filtro_norm, tags_norm) ==
    filtro_norm # <<>> => \E i \in DOMAIN tags_norm : Contains(tags_norm[i], filtro_norm)

\* opcoes.insert(0, opcao), which the code does not do
AcrescentaNaFrente(acc, opcao, lugar) == <<[opcao |-> opcao, lugar |-> lugar]>> \o acc

\* opcoes.append(opcao); lugar is the place <<product, item>> of the batch
\* the option was made from
Acrescenta(acc, opcao, lugar) == Append(acc, [opcao |-> opcao, lugar |-> lugar])

\* return opcoes: the list, and beside it the place each option was made from
Retorna(acc) ==
    Let1(acc, LAMBDA a : [raised |-> FALSE,
                          opcoes |-> [k \in DOMAIN a |-> a[k].opcao],
                          origem |-> [k \in DOMAIN a |-> a[k].lugar]])

\* the inner loop (lines 97-122), from item ii on; acc is opcoes so far
RECURSIVE ItensListar(_, _, _, _, _, _, _)
ItensListar(p, pi, items, ii, banho_norm, pedra_norm, acc) ==
    IF ii > Len(items) THEN acc
    ELSE LET it == items[ii]
             pedras == Or(Get(p.Pedras), Val(<<>>)).v
             pedras_norm == NormAll(pedras)
             pedra_label == PrimeiroOuNone(pedras)
             banhos == Or(Get(it.Banho), Val(<<>>)).v
             banhos_norm == NormAll(banhos)
             banho_label == PrimeiroOuNone(banhos)
             image_url == escolher_melhor_imagem(it)
             opcao == [codigo |-> ProdRef(p),
                       banho |-> banho_label,
                       pedra |-> pedra_label,
                       image_url |-> image_url]
             keep == /\ FiltroPassa(banho_norm, banhos_norm)
                     /\ FiltroPassa(pedra_norm, pedras_norm)
                     /\ Truthy(image_url)
         IN  ItensListar(p, pi, items, ii + 1, banho_norm, pedra_norm,
                         IF keep THEN Acrescenta(acc, opcao, <<pi, ii>>) ELSE acc)

\* the outer loop (lines 81-122), from product pi on.  "for item in
\* prod.get('items', [])" raises TypeError when the key is there with the
\* value None
RECURSIVE ProdutosListar(_, _, _, _, _, _)
ProdutosListar(prods, pi, codigo_norm, banho_norm, pedra_norm, acc) ==
    IF pi > Len(prods) THEN Retorna(acc)
    ELSE LET p == prods[pi]
             items == GetDefault(p.items, <<>>)
         IN  IF ~CodigoPassa(codigo_norm, normalizar_texto(ProdRef(p)))
             THEN ProdutosListar(prods, pi + 1, codigo_norm, banho_norm, pedra_norm, acc)
             ELSE IF items.k = "none"
             THEN [raised |-> TRUE, opcoes |-> <<>>, origem |-> <<>>]
             ELSE ProdutosListar(prods, pi + 1, codigo_norm, banho_norm, pedra_norm,
                      ItensListar(p, pi, items.v, 1, banho_norm, pedra_norm, acc))

\* _listar_opcoes_sku_imagem(produtos, codigo, banho, pedra)
ListarOpcoes(prods, cod, bnh, pdr) ==
    ProdutosListar(prods, 1, normalizar_texto(Val(cod)), NormFiltro(bnh), NormFiltro(pdr),
                   <<>>)

----------------------------------------------------------------------------
(* escolher_sku *)

\* the first loop (lines 142-161), from product pi on: skus, or raised
RECURSIVE TodosSkus(_, _)
TodosSkus(prods, pi) ==
    IF pi > Len(prods) THEN [raised |-> FALSE, skus |-> <<>>]
    ELSE LET p == prods[pi]
             items == GetDefault(p.items, <<>>)
             pedras == Or(Get(p.Pedras), Val(<<>>)).v
             these == [ii \in DOMAIN items.v |->
                          [produto |-> p,
                           item |-> items.v[ii],
                           codigo_norm |-> normalizar_texto(ProdRef(p)),
                           banhos_norm |-> NormAll(Or(Get(items.v[ii].Banho), Val(<<>>)).v),
                           pedras_norm |-> NormAll(pedras),
                           origem |-> <<pi, ii>>]]
             rest == TodosSkus(prods, pi + 1)
         IN  IF items.k = "none" \/ rest.raised THEN [raised |-> TRUE, skus |-> <<>>]
             ELSE [raised |-> FALSE, skus |-> these \o rest.skus]

\* steps 3 and 4: the narrowed pool, unless the narrowing leaves nothing
Estreita(candidatos, filtro_norm, passa(_)) ==
    LET cand == SelectSeq(candidatos, passa)
    IN  IF filtro_norm # <<>> /\ cand # <<>> THEN cand ELSE candidatos

\* escolher_sku(produtos, codigo, banho, pedra)
escolher_sku(prods, cod, bnh, pdr) ==
    LET codigo_norm == normalizar_texto(Val(cod))
        banho_norm == NormFiltro(bnh)
        pedra_norm == NormFiltro(pdr)
        t == TodosSkus(prods, 1)
        candidatos == SelectSeq(t.skus, LAMBDA x : CodigoPassa(codigo_norm, x.codigo_norm))
        cand_banho == Estreita(candidatos, banho_norm,
                        LAMBDA x : \E i \in DOMAIN x.banhos_norm :
                            \/ banho_norm = x.banhos_norm[i]
                            \/ Contains(x.banhos_norm[i], banho_norm))
        cand_pedra == Estreita(cand_banho, pedra_norm,
                        LAMBDA x : \E i \in DOMAIN x.pedras_norm :
                            \/ pedra_norm = x.pedras_norm[i]
                            \/ Contains(x.pedras_norm[i], pedra_norm)
                            \/ Contains(pedra_norm, x.pedras_norm[i]))
    IN  IF t.raised THEN [raised |-> TRUE, value |-> None]
        ELSE IF t.skus = <<>> \/ candidatos = <<>> THEN [raised |-> FALSE, value |-> None]
        ELSE [raised |-> FALSE, value |-> Val(cand_pedra[1])]

----------------------------------------------------------------------------
(* The catalog feed and buscar_imagem_por_codigo_pedra_banho *)

\* requests.get / raise_for_status raise a RequestException
FetchFailed(f) == f \in {"timeout", "connection_error", "http_error"}

\* resp.json() is a list
IsList(f) == f = "ok"

\* buscar_imagem_por_codigo_pedra_banho(codigo, banho, pedra)
buscar_imagem(f, prods, cod, bnh, pdr) ==
    LET r == ListarOpcoes(prods, cod, bnh, pdr)
    IN  IF FetchFailed(f) THEN [raised |-> FALSE, value |-> None]
        ELSE IF ~IsList(f) \/ prods = <<>> THEN [raised |-> FALSE, value |-> None]
        ELSE IF r.raised THEN [raised |-> TRUE, value |-> None]
        ELSE IF r.opcoes = <<>> THEN [raised |-> FALSE, value |-> None]
        ELSE [raised |-> FALSE, value |-> r.opcoes[1].image_url]

----------------------------------------------------------------------------
(* The /md/sku-image-options handler, with the second copy of the matcher  *)

\* urllib.parse.quote(url, safe="") of the URLs of the model
Quote(url) ==
    [i \in DOMAIN url |->
        CASE url[i] = "http://img/1.jpg" -> "http%3A%2F%2Fimg%2F1.jpg"
          [] url[i] = "http://img/2.jpg" -> "http%3A%2F%2Fimg%2F2.jpg"
          [] url[i] = "http://img/3.jpg" -> "http%3A%2F%2Fimg%2F3.jpg"
          [] url[i] = "http://img/4.jpg" -> "http%3A%2F%2Fimg%2F4.jpg"
          [] OTHER -> url[i]]

\* the inner loop (lines 445-490) over the items of the enriched product p,
\* from item ii on; acc is opcoes so far
RECURSIVE ItensEndpoint(_, _, _, _, _, _, _, _)
ItensEndpoint(p, pi, items, ii, cod, banho_norm, pedra_norm, acc) ==
    IF ii > Len(items) THEN acc
    ELSE LET it == items[ii]
             prod_ref == Or(Or(Get(p.productReference), Get(p.productReferenceCode)),
                            Val(<<>>))
             pedras == Or(Get(p.Pedras), Val(<<>>)).v
             pedras_norm == [i \in DOMAIN pedras |-> normalizar_texto(Val(pedras[i]))]
             pedra_label == IF pedras # <<>> THEN Val(pedras[1]) ELSE None
             banhos == Or(Get(it.Banho), Val(<<>>)).v
             banhos_norm == [i \in DOMAIN banhos |-> normalizar_texto(Val(banhos[i]))]
             banho_label == IF banhos # <<>> THEN Val(banhos[1]) ELSE None
             passaBanho == banho_norm # <<>> =>
                               \E i \in DOMAIN banhos_norm : Contains(banhos_norm[i], banho_norm)
             passaPedra == pedra_norm # <<>> =>
                               \E i \in DOMAIN pedras_norm : Contains(pedras_norm[i], pedra_norm)
             image_url == escolher_melhor_imagem(it)
             opcao == [productId |-> Get(p.productId),
                       codigo_completo |-> prod_ref,
                       codigo_busca |-> cod,
                       banho |-> banho_label,
                       pedra |-> pedra_label,
                       nome |-> Get(p.productName),
                       colecao_principal |-> Get(p.colecao_principal),
                       link |-> Get(p.link),
                       preco |-> Get(p.preco),
                       preco_lista |-> Get(p.preco_lista),
                       preco_sem_desconto |-> Get(p.preco_sem_desconto),
                       percentual_desconto |-> Get(p.percentual_desconto),
                       imagem_principal |-> Get(p.imagem_principal),
                       image_url |-> image_url,
                       proxied_url |-> <<"/image-proxy?url=">> \o Quote(image_url.v)]
         IN  ItensEndpoint(p, pi, items, ii + 1, cod, banho_norm, pedra_norm,
                 IF passaBanho /\ passaPedra /\ Truthy(image_url)
                 THEN Append(acc, [opcao |-> opcao, lugar |-> <<pi, ii>>])
                 ELSE acc)

\* the outer loop (lines 426-490), from product pi on
RECURSIVE ProdutosEndpoint(_, _, _, _, _, _, _)

\* the body of the outer loop; e is what enriquecer_produto(prod) gave
PassoEndpoint(e, prods, pi, cod, codigo_norm, banho_norm, pedra_norm, acc) ==
    LET p == e.value
        prod_ref_norm == normalizar_texto(Or(Or(Get(p.productReference),
                              Get(p.productReferenceCode)), Val(<<>>)))
        passaCodigo == IF HasDot(codigo_norm) THEN prod_ref_norm = codigo_norm
                       ELSE StartsWith(prod_ref_norm, codigo_norm)
        items == GetDefault(p.items, <<>>)
    IN  IF e.raised THEN [raised |-> TRUE, opcoes |-> <<>>, origem |-> <<>>]
        ELSE IF ~passaCodigo
        THEN ProdutosEndpoint(prods, pi + 1, cod, codigo_norm, banho_norm, pedra_norm, acc)
        ELSE IF items.k = "none"
        THEN [raised |-> TRUE, opcoes |-> <<>>, origem |-> <<>>]
        ELSE ProdutosEndpoint(prods, pi + 1, cod, codigo_norm, banho_norm, pedra_norm,
                 ItensEndpoint(p, pi, items.v, 1, cod, banho_norm, pedra_norm, acc))

ProdutosEndpoint(prods, pi, cod, codigo_norm, banho_norm, pedra_norm, acc) ==
    IF pi > Len(prods)
    THEN Let1(acc, LAMBDA a : [raised |-> FALSE,
                               opcoes |-> [k \in DOMAIN a |-> a[k].opcao],
                               origem |-> [k \in DOMAIN a |-> a[k].lugar]])
    ELSE Let1(enriquecer_produto(prods[pi]),
              LAMBDA e : PassoEndpoint(e, prods, pi, cod, codigo_norm, banho_norm,
                                       pedra_norm, acc))

\* sku_image_options(codigo, banho, pedra): the HTTP answer.  An HTTPException
\* is its status and detail; any other exception is FastAPI's answer 500
sku_image_options(f, prods, cod, bnh, pdr) ==
    LET r == ProdutosEndpoint(prods, 1, cod, normalizar_texto(Val(cod)),
                              IF Truthy(bnh) THEN normalizar_texto(bnh) ELSE <<>>,
                              IF Truthy(pdr) THEN normalizar_texto(pdr) ELSE <<>>,
                              <<>>)
    IN  IF FetchFailed(f)
        THEN [status |-> 502, detail |-> "Erro ao consultar VTEX", body |-> <<>>, origem |-> <<>>]
        ELSE IF ~IsList(f) \/ prods = <<>>
        THEN [status |-> 404, detail |-> "Nenhum produto encontrado", body |-> <<>>, origem |-> <<>>]
        ELSE IF r.raised
        THEN [status |-> 500, detail |-> "Internal Server Error", body |-> <<>>, origem |-> <<>>]
        ELSE IF r.opcoes = <<>>
        THEN [status |-> 404,
              detail |-> "Nenhuma combinacao de imagem encontrada para esses filtros",
              body |-> <<>>, origem |-> <<>>]
        ELSE [status |-> 200, detail |-> "", body |-> r.opcoes, origem |-> r.origem]

----------------------------------------------------------------------------
(* The inputs of the model *)

\* the characters of the strings handed to normalizar_texto: white space, a
\* letter in both cases, an accented letter, a combining mark, punctuation
NormChars == {" ", "a", "A", "a'", "'", "."}
Textos == {None} \cup {Val(s) : s \in SeqUpTo(NormChars, MaxLen)}

Url1 == <<"http://img/1.jpg">>
Url2 == <<"http://img/2.jpg">>
Url3 == <<"http://img/3.jpg">>
Url4 == <<"http://img/4.jpg">>

Img(label, url) == [imageLabel |-> label, imageUrl |-> url]

\* the image lists handed to escolher_melhor_imagem
Labels == {Missing, None, Val(<<>>), Val(<<" ">>), Val(<<"x">>), Val(<<" ", "x", " ">>)}
Imagens == {Img(l, u) : l \in Labels, u \in {Missing, Val(Url1), Val(Url2)}}
ItensComImagens ==
    {[images |-> i] : i \in {Missing, None} \cup {Val(x) : x \in SeqUpTo(Imagens, MaxImages)}}

\* the prices of a commercial offer: absent, null, a str, a number
Precos ==
    {Missing, None, Val(PyStr(<<"8", "0">>))} \cup {Val(PyInt(10 * i)) : i \in 0..MaxPreco}
PrecosLista == Precos \cup {Val(PyInt(-100)), Val(PyStr(<<>>))}

Offer(preco, lista) ==
    [Price |-> preco, ListPrice |-> lista, PriceWithoutDiscount |-> lista]
Seller(offer) == Val([commertialOffer |-> Val(offer)])
OutroSeller == Seller(Offer(Val(PyInt(10)), Val(PyInt(100))))

Item(banhos, imagens, sellers) == [Banho |-> banhos, images |-> imagens, sellers |-> sellers]
OutroItem == Item(Missing, Val(<<Img(Missing, Val(Url4))>>), Val(<<OutroSeller>>))

Produto(id, ref, refCode, pedras, items) ==
    [productId |-> Val(<<id>>),
     productName |-> Val(<<"Anel">>),
     link |-> Missing,
     productReference |-> ref,
     productReferenceCode |-> refCode,
     Pedras |-> pedras,
     Colecoes |-> Val(<<<<"Classica">>, <<"Festa">>>>),
     items |-> items]

\* the seller lists and item lists of the products handed to enriquecer_produto
ListasSellers ==
    {Missing, None, Val(<<>>), Val(<<None>>), Val(<<None, OutroSeller>>),
     Val(<<Val([commertialOffer |-> Missing])>>), Val(<<Val([commertialOffer |-> None])>>)}
    \cup {Val(<<Seller(Offer(pr, l))>>) : pr \in Precos, l \in PrecosLista}
    \cup {Val(<<Seller(Offer(pr, l)), OutroSeller>>) : pr \in Precos, l \in PrecosLista}
ListasItens ==
    {Missing, None, Val(<<>>)}
    \cup {Val(<<Item(Missing, Val(<<Img(Missing, Val(Url1))>>), sl)>>) : sl \in ListasSellers}
    \cup {Val(<<Item(Missing, Missing, sl), OutroItem>>) : sl \in ListasSellers}
ProdutosParaEnriquecer ==
    {Produto("1", Val(<<"M", "D", "1">>), Missing, Missing, il) : il \in ListasItens}

\* the catalog the feed answers from
Ouro == <<"O", "u", "r", "o">>
Ou == <<"O", "u">>
Prata == <<"P", "r", "a", "t", "a">>
Agata == <<"A'", "g", "a", "t", "a">>
Aga == <<"A'", "g", "a">>
Onix == <<"O^", "n", "i", "x">>

ItemOuro ==
    Item(Val(<<Ouro>>),
         Val(<<Img(Val(<<"s", "w">>), Val(Url1)), Img(Val(<<>>), Val(Url2))>>),
         Val(<<Seller(Offer(Val(PyInt(80)), Val(PyInt(100))))>>))
ItemPrata == Item(Val(<<Prata, Ou>>), Val(<<Img(Missing, Val(Url3))>>), Missing)
ItemSemBanho == Item(Missing, Val(<<Img(Val(<<"x">>), Val(Url4))>>), None)
ItemSemImagem == Item(None, None, Missing)
ItemUrlVazia == Item(Val(<<Ouro>>), Val(<<Img(None, Val(<<>>))>>), Val(<<>>))

Catalogo ==
    {Produto("1", Val(<<"M", "D", "1", ".", "9">>), Missing,
             Val(<<Agata>>), Val(<<ItemOuro, ItemPrata>>)),
     Produto("2", Missing, Val(<<"M", "D", "1", ".", "9", "0">>),
             Val(<<Aga, Onix>>), Val(<<ItemPrata, ItemSemBanho>>)),
     Produto("3", Val(<<>>), Val(<<"m", "d", "1", ".", "9">>),
             Missing, Val(<<ItemSemBanho, ItemSemImagem, ItemOuro>>)),
     Produto("4", None, None, None, Val(<<ItemOuro>>)),
     Produto("5", Val(<<"M", "D", "1", ".", "9">>), Val(<<"M", "D", "1", ".", "9", "0">>),
             Val(<<>>), Missing),
     Produto("6", Val(<<"M", "D", "1", ".", "9", "0">>), Missing,
             Val(<<Agata>>), None),
     Produto("7", Val(<<"M", "D", "1", "X">>), None,
             Val(<<Onix>>), Val(<<ItemUrlVazia, ItemOuro>>))}

Lotes == SeqUpTo(Catalogo, MaxProdutos)

Codigos == {<<"M", "D", "1">>, <<"m", "d", "1", ".", "9">>, <<"M", "D", "1", ".", "9", "0">>}
FiltrosBanho == {None, Val(<<" ">>), Val(<<"o", "u", "r", "o">>), Val(<<"o", "u">>)}
FiltrosPedra == {None, Val(<<"a'", "g", "a", "t", "a">>), Val(<<"o^", "n">>)}

----------------------------------------------------------------------------
(* The state machine: one request is set up, then one operation runs *)

NoRet == [k |-> "no call yet"]
ItemVazio == [images |-> Missing]
ProdutoVazio == Produto("0", Missing, Missing, Missing, Missing)

Ready == pc = "ready" /\ op = "" /\ ret = NoRet

NoMatcherInput ==
    /\ fetch = "ok" /\ produtos = <<>>
    /\ codigo = <<>> /\ banho = None /\ pedra = None

\* a request to the matcher: the feed fails, answers something that is no
\* list, or answers a batch
Init ==
    /\ Ready
    /\ texto = None /\ item = ItemVazio /\ prod = ProdutoVazio
    /\ codigo \in Codigos /\ banho \in FiltrosBanho /\ pedra \in FiltrosPedra
    /\ \/ fetch \in {"timeout", "connection_error", "http_error", "ok_not_a_list"}
          /\ produtos = <<>>
       \/ fetch = "ok" /\ produtos \in Lotes

InitNormalizar ==
    /\ Ready /\ NoMatcherInput
    /\ texto \in Textos /\ item = ItemVazio /\ prod = ProdutoVazio

InitImagem ==
    /\ Ready /\ NoMatcherInput
    /\ texto = None /\ item \in ItensComImagens /\ prod = ProdutoVazio

InitEnriquecer ==
    /\ Ready /\ NoMatcherInput
    /\ texto = None /\ item = ItemVazio /\ prod \in ProdutosParaEnriquecer

Return(name, value) ==
    /\ pc = "ready"
    /\ pc' = "done"
    /\ op' = name
    /\ ret' = value
    /\ UNCHANGED <<texto, item, prod, fetch, produtos, codigo, banho, pedra>>

CallNormalizar == Return("normalizar_texto", normalizar_texto(texto))

CallEscolherImagem == Return("escolher_melhor_imagem", escolher_melhor_imagem(item))

CallEnriquecer == Return("enriquecer_produto", enriquecer_produto(prod))

\* the two helpers that are handed a batch are called with the fetched one
CallListar ==
    /\ fetch = "ok"
    /\ Return("_listar_opcoes_sku_imagem", ListarOpcoes(produtos, codigo, banho, pedra))

CallEscolherSku ==
    /\ fetch = "ok"
    /\ Return("escolher_sku", escolher_sku(produtos, codigo, banho, pedra))

CallBuscarImagem ==
    Return("buscar_imagem_por_codigo_pedra_banho",
           buscar_imagem(fetch, produtos, codigo, banho, pedra))

CallSkuImageOptions ==
    Return("sku_image_options", sku_image_options(fetch, produtos, codigo, banho, pedra))

Next == CallListar \/ CallEscolherSku \/ CallBuscarImagem \/ CallSkuImageOptions

Spec == Init /\ [][Next]_vars
SpecNormalizar == InitNormalizar /\ [][CallNormalizar]_vars
SpecImagem == InitImagem /\ [][CallEscolherImagem]_vars
SpecEnriquecer == InitEnriquecer /\ [][CallEnriquecer]_vars

----------------------------------------------------------------------------
(* What the properties are stated with *)

Done(name) == pc = "done" /\ op = name

\* a is the first Len(a) characters of b
IsPrefix(a, b) == \E n \in 0..Len(b) : a = [i \in 1..n |-> b[i]]

\* a occurs in b as a run of consecutive characters
IsSubstring(a, b) ==
    \E from \in 1..(Len(b) + 1) : \E n \in 0..Len(b) :
        /\ from + n - 1 <= Len(b)
        /\ a = [i \in 1..n |-> b[from + i - 1]]

\* a list field that is missing or null counts as the empty list
ListaDe(f) == IF f.k = "val" THEN f.v ELSE <<>>

\* productReference if present and non-empty, else productReferenceCode,
\* else the empty string
RefDoProduto(p) ==
    IF ListaDe(p.productReference) # <<>> THEN p.productReference.v
    ELSE ListaDe(p.productReferenceCode)

\* the code rule: equality for a base code with a '.', prefix otherwise
RegraCodigo(cod, p) ==
    LET base == normalizar_texto(Val(cod))
        ref == normalizar_texto(Val(RefDoProduto(p)))
    IN  IF \E i \in DOMAIN base : base[i] = "." THEN ref = base ELSE IsPrefix(base, ref)

\* the filter rule: no constraint for an absent or blank filter, else the
\* normalized filter occurs in one of the normalized tags
RegraFiltro(filtro, tags) ==
    LET F == IF filtro.k = "val" THEN normalizar_texto(filtro) ELSE <<>>
    IN  F # <<>> => \E i \in DOMAIN tags : IsSubstring(F, normalizar_texto(Val(tags[i])))

\* the places <<product, item>> of a batch
Lugares(prods) ==
    UNION {{<<pi, ii>> : ii \in DOMAIN ListaDe(prods[pi].items)} : pi \in DOMAIN prods}

ItemEm(prods, lugar) == prods[lugar[1]].items.v[lugar[2]]

\* a run of the list-all matcher that came to its end
ListAllDone ==
    \/ Done("_listar_opcoes_sku_imagem") /\ ~ret.raised
    \/ Done("sku_image_options") /\ fetch = "ok" /\ ret.status \in {200, 404}

\* the options of such a run, and the places they were made from
Opcoes == IF op = "sku_image_options" THEN ret.body ELSE ret.opcoes
Emitidos == {ret.origem[k] : k \in DOMAIN ret.origem}

\* the reference code an option carries
CodigoDaOpcao(o) == IF op = "sku_image_options" THEN o.codigo_completo ELSE o.codigo

----------------------------------------------------------------------------
(* C1 *)

\* C1: for sku_image_options and buscar_imagem_por_codigo_pedra_banho, the
\* outcome of a failed fetch (timeout, transport error, non-success status)
\* differs from every outcome of a fetch that succeeded and found no record
\* or no matching variant
C1_FetchFailureDistinct ==
    pc = "done" /\ FetchFailed(fetch) =>
        \A l \in SeqUpTo(Catalogo, 1) :
            /\ op = "sku_image_options" =>
                   LET nf == sku_image_options("ok", l, codigo, banho, pedra)
                   IN  nf.status = 404 => ret.status # nf.status
            /\ op = "buscar_imagem_por_codigo_pedra_banho" =>
                   LET r == ListarOpcoes(l, codigo, banho, pedra)
                   IN  l = <<>> \/ (~r.raised /\ r.opcoes = <<>>) =>
                           ret # buscar_imagem("ok", l, codigo, banho, pedra)

----------------------------------------------------------------------------
(* C2 *)

\* C2: in a completed run of the list-all matcher, every option comes from a
\* product that satisfies the code rule (equality of normalized codes when the
\* base code has a '.', prefix otherwise, over productReference, else
\* productReferenceCode, else ""), carries that product's reference code, and
\* with no plating and no stone filter every item with an image of every
\* product satisfying the rule is in the output
C2_CodeFilter ==
    ListAllDone =>
        /\ \A l \in Emitidos : l \in Lugares(produtos) /\ RegraCodigo(codigo, produtos[l[1]])
        /\ \A k \in DOMAIN Opcoes :
               CodigoDaOpcao(Opcoes[k]) = Val(RefDoProduto(produtos[ret.origem[k][1]]))
        /\ RegraFiltro(banho, <<>>) /\ RegraFiltro(pedra, <<>>) =>
               \A l \in Lugares(produtos) :
                   /\ RegraCodigo(codigo, produtos[l[1]])
                   /\ Truthy(escolher_melhor_imagem(ItemEm(produtos, l)))
                   => l \in Emitidos

\* C2 witness: a dotted base code, a batch with a product whose reference only
\* starts with it (and has an item with an image), and a non-empty output
C2_Witness ==
    /\ ListAllDone
    /\ \E i \in DOMAIN normalizar_texto(Val(codigo)) : normalizar_texto(Val(codigo))[i] = "."
    /\ Emitidos # {}
    /\ \E l \in Lugares(produtos) :
           /\ ~RegraCodigo(codigo, produtos[l[1]])
           /\ IsPrefix(normalizar_texto(Val(codigo)),
                       normalizar_texto(Val(RefDoProduto(produtos[l[1]]))))
           /\ Truthy(escolher_melhor_imagem(ItemEm(produtos, l)))

----------------------------------------------------------------------------
(* C3 *)

\* C3: in a completed run of the list-all matcher, an item with an image of a
\* product that passed the code filter is in the output iff the plating filter
\* is absent or blank or occurs in one of the item's normalized plating tags,
\* and the stone filter is absent or blank or occurs in one of the product's
\* normalized stone tags (one direction only)
C3_TagFilters ==
    ListAllDone =>
        \A l \in Lugares(produtos) :
            /\ RegraCodigo(codigo, produtos[l[1]])
            /\ Truthy(escolher_melhor_imagem(ItemEm(produtos, l)))
            => (l \in Emitidos <=>
                   /\ RegraFiltro(banho, ListaDe(ItemEm(produtos, l).Banho))
                   /\ RegraFiltro(pedra, ListaDe(produtos[l[1]].Pedras)))

\* C3 witness: a non-blank plating filter, an item in the output, and an item
\* left out although one of its plating tags occurs in the filter
C3_Witness ==
    /\ ListAllDone
    /\ Truthy(banho) /\ normalizar_texto(banho) # <<>>
    /\ Emitidos # {}
    /\ \E l \in Lugares(produtos) \ Emitidos :
           /\ RegraCodigo(codigo, produtos[l[1]])
           /\ Truthy(escolher_melhor_imagem(ItemEm(produtos, l)))
           /\ RegraFiltro(pedra, ListaDe(produtos[l[1]].Pedras))
           /\ \E i \in DOMAIN ListaDe(ItemEm(produtos, l).Banho) :
                  LET tag == normalizar_texto(Val(ItemEm(produtos, l).Banho.v[i]))
                  IN  tag # <<>> /\ IsSubstring(tag, normalizar_texto(banho))

----------------------------------------------------------------------------
(* C4 *)

\* C4: the list-all matcher never raises for a malformed record: whatever list
\* field (items, Pedras, Banho, images) or reference-code field of the batch is
\* missing or null, _listar_opcoes_sku_imagem and the sku_image_options loop
\* run to completion
C4_NeverRaises ==
    /\ Done("_listar_opcoes_sku_imagem") => ~ret.raised
    /\ Done("sku_image_options") => ret.status # 500

----------------------------------------------------------------------------
(* C5 *)

\* the label is absent, or empty after trimming
SemLabel(img) ==
    img.imageLabel.k = "val" => \A i \in DOMAIN img.imageLabel.v : img.imageLabel.v[i] = " "

UrlDe(img) == IF img.imageUrl.k = "val" THEN img.imageUrl ELSE None

\* C5: escolher_melhor_imagem returns nothing when the image list is missing or
\* empty; otherwise the URL of the first image, in list order, whose label is
\* absent or empty after trimming; and the URL of the first image when every
\* image has a label.  [{x, A}, {'', B}] gives B and [{x, A}] gives A
C5_BestImage ==
    Done("escolher_melhor_imagem") =>
        LET imgs == ListaDe(item.images)
            sem == {i \in DOMAIN imgs : SemLabel(imgs[i])}
        IN  /\ imgs = <<>> => ret = None
            /\ imgs # <<>> /\ sem # {} =>
                   ret = UrlDe(imgs[CHOOSE i \in sem : \A j \in sem : i <= j])
            /\ imgs # <<>> /\ sem = {} => ret = UrlDe(imgs[1])
            /\ imgs = <<Img(Val(<<"x">>), Val(Url1)), Img(Val(<<>>), Val(Url2))>> =>
                   ret = Val(Url2)
            /\ imgs = <<Img(Val(<<"x">>), Val(Url1))>> => ret = Val(Url1)

\* C5 witness: the first image has a label, the second has none, and the
\* second image's URL, which is not the first's, was returned
C5_Witness ==
    /\ Done("escolher_melhor_imagem")
    /\ Len(ListaDe(item.images)) = 2
    /\ ~SemLabel(item.images.v[1]) /\ SemLabel(item.images.v[2])
    /\ item.images.v[2].imageUrl.k = "val"
    /\ item.images.v[1].imageUrl # item.images.v[2].imageUrl
    /\ ret = item.images.v[2].imageUrl

----------------------------------------------------------------------------
(* C6 *)

\* C6: normalizar_texto is idempotent, normalizar_texto(normalizar_texto(s)) =
\* normalizar_texto(s) for every string s, and normalizar_texto('') =
\* normalizar_texto(None) = ''
C6_Idempotent ==
    Done("normalizar_texto") =>
        /\ normalizar_texto(Val(ret)) = ret
        /\ texto \in {None, Val(<<>>)} => ret = <<>>

----------------------------------------------------------------------------
(* C7 *)

\* place a comes before place b in the feed
Antes(a, b) == a[1] < b[1] \/ (a[1] = b[1] /\ a[2] < b[2])

\* C7: a completed run of the list-all matcher emits its options in feed
\* order: of two options, the one whose product, or whose item within the
\* same product, comes earlier in the batch is first, and every (product,
\* item) pair yields at most one option, made from that pair
C7_FeedOrder ==
    ListAllDone =>
        /\ Len(Opcoes) = Len(ret.origem)
        /\ \A j, k \in DOMAIN ret.origem : j < k => Antes(ret.origem[j], ret.origem[k])
        /\ \A k \in DOMAIN ret.origem :
               /\ ret.origem[k] \in Lugares(produtos)
               /\ Opcoes[k].image_url = escolher_melhor_imagem(ItemEm(produtos, ret.origem[k]))
               /\ CodigoDaOpcao(Opcoes[k]) = Val(RefDoProduto(produtos[ret.origem[k][1]]))

\* C7 witness: an output of three options or more, two of them from two items
\* of one product and one from another product
C7_Witness ==
    /\ ListAllDone
    /\ Len(ret.origem) >= 3
    /\ \E j, k \in DOMAIN ret.origem :
           ret.origem[j][1] = ret.origem[k][1] /\ ret.origem[j][2] # ret.origem[k][2]
    /\ \E j, k \in DOMAIN ret.origem : ret.origem[j][1] # ret.origem[k][1]
    /\ \E j, k \in DOMAIN Opcoes : Opcoes[j].image_url # Opcoes[k].image_url

----------------------------------------------------------------------------
(* C8 *)

\* the places of S left by a narrowing, unless the filter is absent or blank
\* or the narrowing leaves nothing
Estreitado(S, filtro, fica(_, _)) ==
    LET F == IF filtro.k = "val" THEN normalizar_texto(filtro) ELSE <<>>
        N == {l \in S : fica(F, l)}
    IN  IF F # <<>> /\ N # {} THEN N ELSE S

\* C8: escolher_sku returns nothing iff no SKU item belongs to a product that
\* passes the code filter; otherwise it returns the first, in feed order, of
\* the pool left by the plating narrowing (filter equal to or inside a plating
\* tag) and then the stone narrowing (filter inside a stone tag or a stone tag
\* inside the filter), a narrowing that would leave nothing being discarded
C8_FailOpen ==
    Done("escolher_sku") =>
        LET pool == {l \in Lugares(produtos) : RegraCodigo(codigo, produtos[l[1]])}
            porBanho == Estreitado(pool, banho, LAMBDA F, l :
                \E i \in DOMAIN ListaDe(ItemEm(produtos, l).Banho) :
                    IsSubstring(F, normalizar_texto(Val(ItemEm(produtos, l).Banho.v[i]))))
            porPedra == Estreitado(porBanho, pedra, LAMBDA F, l :
                \E i \in DOMAIN ListaDe(produtos[l[1]].Pedras) :
                    LET tag == normalizar_texto(Val(produtos[l[1]].Pedras.v[i]))
                    IN  IsSubstring(F, tag) \/ IsSubstring(tag, F))
        IN  /\ ~ret.raised
            /\ ret.value = None <=> pool = {}
            /\ pool # {} =>
                   /\ ret.value.v.origem \in porPedra
                   /\ \A l \in porPedra : l = ret.value.v.origem \/ Antes(ret.value.v.origem, l)
                   /\ ret.value.v.produto = produtos[ret.value.v.origem[1]]
                   /\ ret.value.v.item = ItemEm(produtos, ret.value.v.origem)

----------------------------------------------------------------------------
(* C9 *)

\* the commercial offer of the first seller of the first SKU item, if any
OfertaPrincipal(p) ==
    LET items == ListaDe(p.items)
        sellers == ListaDe(items[1].sellers)
    IN  IF items = <<>> THEN EmptyOffer
        ELSE IF sellers = <<>> THEN EmptyOffer
        ELSE IF sellers[1].k # "val" THEN EmptyOffer
        ELSE IF sellers[1].v.commertialOffer.k # "val" THEN EmptyOffer
        ELSE sellers[1].v.commertialOffer.v

Numero(x) == x.k = "val" /\ x.v.t = "int"

\* half the distance from the double x to the next double
MeioUlp(x) == Dyadic(1, BigOne, x.e + BitLength(x.m) - Precision - 1)

\* C9, as the claim has it: when Price is present and ListPrice is present and
\* strictly positive the discount percentage equals (1 - Price/ListPrice) *
\* 100, that is, it is the real number's nearest double (80 and 100 give 20);
\* it is absent in every other case, and no error is raised
C9_ExactDiscount ==
    Done("enriquecer_produto") =>
        LET P == OfertaPrincipal(prod).Price
            L == OfertaPrincipal(prod).ListPrice
            pct == ret.value.percentual_desconto
        IN  /\ ~ret.raised
            /\ IF Numero(P) /\ Numero(L) /\ L.v.n > 0
               THEN /\ pct.k = "val"
                    /\ DLeq(DAbs(DSub(DMul(pct.v.f, L.v.n),
                                      FloatOfInt(100 * (L.v.n - P.v.n)))),
                            DMul(MeioUlp(pct.v.f), L.v.n))
                    /\ P.v.n = 80 /\ L.v.n = 100 => pct.v.f = FloatOfInt(20)
               ELSE pct = None

\* C9: enriquecer_produto raises no error; the discount percentage is present
\* iff the first seller of the first SKU item has a numeric Price and a
\* numeric, strictly positive ListPrice; when present it is the double the
\* expression (1 - Price/ListPrice) * 100 evaluates to, within 2^-44 *
\* (ListPrice + Price) / ListPrice of the real value, and for 80 and 100 it is
\* 20 - 2^-48 = 19.999999999999996; the same value is under md_resumo
C9_Discount ==
    Done("enriquecer_produto") =>
        LET P == OfertaPrincipal(prod).Price
            L == OfertaPrincipal(prod).ListPrice
            pct == ret.value.percentual_desconto
        IN  /\ ~ret.raised
            /\ ret.value.md_resumo.percentual_desconto = pct
            /\ IF Numero(P) /\ Numero(L) /\ L.v.n > 0
               THEN /\ pct.k = "val" /\ pct.v.t = "float"
                    /\ DLeq(DAbs(DSub(DMul(pct.v.f, L.v.n),
                                      FloatOfInt(100 * (L.v.n - P.v.n)))),
                            DMul(Dyadic(1, BigOne, -44), L.v.n + P.v.n))
                    /\ P.v.n = 80 /\ L.v.n = 100 =>
                           DSub(FloatOfInt(20), pct.v.f) = Dyadic(1, BigOne, -48)
               ELSE pct = None

\* C9 witness: Price 80 and ListPrice 100 gave a discount percentage, and it
\* is not 20
C9_Witness ==
    /\ Done("enriquecer_produto")
    /\ OfertaPrincipal(prod).Price = Val(PyInt(80))
    /\ OfertaPrincipal(prod).ListPrice = Val(PyInt(100))
    /\ ret.value.percentual_desconto.k = "val"
    /\ ret.value.percentual_desconto.v.f # FloatOfInt(20)

----------------------------------------------------------------------------
(* C10 *)

\* (reference code, plating label, stone label, image URL) of the options
Tuplas(opcoes, codigoDe(_)) ==
    [k \in DOMAIN opcoes |->
        <<codigoDe(opcoes[k]), opcoes[k].banho, opcoes[k].pedra, opcoes[k].image_url>>]

============================================================================
